---- MODULE Spec2Model ----
(***************************************************************************)
(* State-machine model of the TWAP execution algorithm                     *)
(* (src/src/algos/twap/twap.cc).  One algorithm instance, its schedule     *)
(* configuration, the market snapshot it reads, the child orders it has    *)
(* outstanding and the one-shot timer that drives it.                      *)
(*                                                                         *)
(* Quantities are integers (shares).  Prices are integers and the tick is  *)
(* TickSize of them, so that a midpoint or a last trade price can fall     *)
(* between two ticks and RoundPrice has something to round.  max_pov_ is   *)
(* kept in units of 1/PovDen, the schedule noise in units of 1/NoiseDen,   *)
(* the power tilt_ in units of 1/TiltDen, and a fractional power of the    *)
(* time ratio is computed to 1/RootDen, rounded down.                      *)
(***************************************************************************)
EXTENDS Integers, Sequences, FiniteSets, TLC

\* ---------------------------------------------------------------- bounds
ParentQty == 3
\* st_.qty, the parent order quantity
Lot == 2
\* the lot size of an instrument that has one
TickSize == 2
\* the instrument's tick, in price units
TickStride == 30
\* time units that pass between two handled timer callbacks
MaxVolume == 1
\* cap on the cumulative traded volume the feed reports after PriorVolume
PriorVolume == 1
\* cumulative traded volume already on the feed when the instance is built
MaxModify == 1
\* cap on the number of OnModify calls in one run

\* ------------------------------------------------------ program constants
MinValidSeconds == 60
PovDen == 10
NoiseDen == 100
TiltDen == 2
RootDen == 1000

\* ------------------------------------------------------------- variables
VARIABLES
  status,                  \* "NotStarted" | "Running" | "Stopped"
  side, qty,               \* st_.side, st_.qty
  lot_size,                \* inst_->sec().lot_size
  odd_lot_allowed,         \* inst_->sec().exchange->odd_lot_allowed
  not_lower_than_last_px_,
  now,                     \* GetTime()
  start_time_, end_time_,
  price_, min_size_, max_floor_, max_pov_, agg_, random_, tilt_,
  bid, ask, close, volume, \* md().quote().bid_price/ask_price, md().trade
  initial_volume_,
  inTradePeriod,           \* inst_->sec().IsInTradePeriod()
  active_orders,           \* inst_->active_orders()
  cum_qty, cum_cx_qty,     \* inst_->cum_qty(), inst_->cum_cx_qty()
  crossLeaves,             \* quantity of the internal cross still unfilled
  timers,                  \* one-shot timeouts armed and not yet fired
  cleared,                 \* how many times inst_->Clear() has run
  modifies,                \* OnModify calls so far
  params,                  \* the ParamMap of the last OnStart / OnModify call
  err,                     \* the error string the last OnStart / Modify gave
  intents                  \* Place / Cancel / Cross intents of the last step

cfgVars == <<price_, min_size_, max_floor_, max_pov_, agg_, random_, tilt_>>
secVars == <<side, qty, lot_size, odd_lot_allowed, not_lower_than_last_px_>>
mdVars == <<bid, ask, close, volume, inTradePeriod>>
execVars == <<active_orders, cum_qty, cum_cx_qty, crossLeaves>>
vars == <<status, secVars, now, start_time_, end_time_, cfgVars, mdVars,
          initial_volume_, execVars, timers, cleared, modifies, params,
          err, intents>>

\* --------------------------------------------------------------- helpers
Max(a, b) == IF a >= b THEN a ELSE b

\* floor(a / b) and ceil(a / b) of the real quotient, b > 0
FloorDiv(a, b) == a \div b
CeilDiv(a, b) == -((-a) \div b)

RECURSIVE Pow(_, _)
Pow(b, n) == IF n = 0 THEN 1 ELSE b * Pow(b, n - 1)

IsBuy(s) == s = "Buy"

\* The typed get-with-default over the configuration map, and its has_value.
GetParam(p, key, default) == IF key \in DOMAIN p THEN p[key] ELSE default
HasValue(p, key) == key \in DOMAIN p

NoParams == [k \in {} |-> 0]

\* Round a price to the nearest multiple of the tick, half up.  RoundHalves
\* takes the price in halves of a price unit, for a midpoint (ask + bid) / 2.
RoundHalves(h) == ((h + TickSize) \div (2 * TickSize)) * TickSize
RoundPrice(px) == RoundHalves(2 * px)

Cfg == [price_ |-> price_, min_size_ |-> min_size_, max_floor_ |-> max_floor_,
        max_pov_ |-> max_pov_, agg_ |-> agg_, random_ |-> random_,
        tilt_ |-> tilt_]

\* ---------------------------------------------------------- TWAP::Modify
AggTokens == {"Low", "Medium", "High", "Highest"}
AggError == "Invalid aggression, must be in (Low, Medium, High, Highest)"

\* Tilt inputs are named by the power exp(-x)/5 they give, kept in units of
\* 1/TiltDen: x = -ln 5 gives 1 (linear), x = -ln 10 gives 2, x = -ln 2.5
\* gives 1/2.
TiltPower(x) ==
  IF x = "-ln10" THEN 2 * TiltDen
  ELSE IF x = "-ln2.5" THEN TiltDen \div 2
  ELSE TiltDen

ModifyPrice(old, p) ==
  LET v == GetParam(p, "Price", old)
  IN  IF HasValue(p, "Price") /\ v > 0 THEN RoundPrice(v) ELSE v

\* min_size_ and lot_size are integers: min_size_ / lot_size truncates, and
\* std::round of the truncated quotient changes nothing.
ModifyMinSize(old, lot, p) ==
  LET v == GetParam(p, "MinSize", old)
  IN  IF HasValue(p, "MinSize") /\ v > 0 /\ lot > 0
      THEN (v \div lot) * lot ELSE v

ModifyMaxFloor(old, min, lot, p) ==
  LET v == GetParam(p, "MaxFloor", old)
      f == IF v > 0 /\ lot > 0 THEN (v \div lot) * lot ELSE v
  IN  IF HasValue(p, "MaxFloor")
      THEN (IF min > 0 /\ f < min THEN 0 ELSE f)
      ELSE v

ModifyMaxPov(old, p) ==
  LET v == GetParam(p, "MaxPov", old)
  IN  IF v > PovDen THEN PovDen ELSE v

\* Variant: an unknown token resets the level to the default.
ModifyAggressionReset(old, p) ==
  IF ~HasValue(p, "Aggression") THEN [agg_ |-> old, bad |-> FALSE]
  ELSE IF p["Aggression"] \in AggTokens
       THEN [agg_ |-> p["Aggression"], bad |-> FALSE]
       ELSE [agg_ |-> "Low", bad |-> TRUE]

\* The aggression level after lines 74-86, and whether they return the error.
ModifyAggression(old, p) ==
  IF ~HasValue(p, "Aggression") THEN [agg_ |-> old, bad |-> FALSE]
  ELSE IF p["Aggression"] \in AggTokens
       THEN [agg_ |-> p["Aggression"], bad |-> FALSE]
       ELSE [agg_ |-> old, bad |-> TRUE]

ModifyTilt(old, p) ==
  IF HasValue(p, "Tilt") THEN TiltPower(p["Tilt"]) ELSE old

\* Modify applied to configuration c: the configuration it leaves and the
\* string it returns.  The error return of line 85 comes after price_,
\* min_size_, max_floor_ and max_pov_ have been assigned and before random_
\* and tilt_ are.
Modify(c, lot, p) ==
  LET pr == ModifyPrice(c.price_, p)
      mn == ModifyMinSize(c.min_size_, lot, p)
      mf == ModifyMaxFloor(c.max_floor_, mn, lot, p)
      pv == ModifyMaxPov(c.max_pov_, p)
      ag == ModifyAggression(c.agg_, p)
  IN  IF ag.bad
      THEN [cfg |-> [price_ |-> pr, min_size_ |-> mn, max_floor_ |-> mf,
                     max_pov_ |-> pv, agg_ |-> ag.agg_,
                     random_ |-> c.random_, tilt_ |-> c.tilt_],
            err |-> AggError]
      ELSE [cfg |-> [price_ |-> pr, min_size_ |-> mn, max_floor_ |-> mf,
                     max_pov_ |-> pv, agg_ |-> ag.agg_,
                     random_ |-> GetParam(p, "Randomize", c.random_),
                     tilt_ |-> ModifyTilt(c.tilt_, p)],
            err |-> ""]

\* ----------------------------------------------------------- TWAP::Timer
Limit == "Limit"
Market == "Market"

RECURSIVE Outstanding(_)
Outstanding(orders) ==
  IF orders = <<>> THEN 0 ELSE Head(orders).leaves + Outstanding(Tail(orders))

\* inst_->total_exposure(): filled plus working child quantity
TotalExposure(orders, cum) == cum + Outstanding(orders)

MidPx(b, a) == IF a > b /\ b > 0 THEN RoundHalves(a + b) ELSE 0

\* Variant: Low with no price to rest at falls through to a market order.
PriceSelectLowFalls(agg, s, b, a, last_px, mid_px) ==
  LET lim(px) == [abstain |-> FALSE, type |-> Limit, price |-> px]
      mkt == [abstain |-> FALSE, type |-> Market, price |-> 0]
      passive == IF IsBuy(s) THEN b ELSE a
      cross == IF IsBuy(s) THEN a ELSE b
  IN  IF agg = "Low" /\ passive > 0 THEN lim(passive)
      ELSE IF agg = "Low" /\ last_px > 0 THEN lim(last_px)
      ELSE IF agg = "Medium" /\ mid_px > 0 THEN lim(mid_px)
      ELSE IF agg \in {"Medium", "High"} /\ cross > 0 THEN lim(cross)
      ELSE mkt

\* The switch on agg_: the contract's type and price, or abstain (the early
\* return).  Medium falls through to High, High to Highest.
PriceSelect(agg, s, b, a, last_px, mid_px) ==
  LET lim(px) == [abstain |-> FALSE, type |-> Limit, price |-> px]
      mkt == [abstain |-> FALSE, type |-> Market, price |-> 0]
      passive == IF IsBuy(s) THEN b ELSE a
      cross == IF IsBuy(s) THEN a ELSE b
  IN  IF agg = "Low"
      THEN IF passive > 0 THEN lim(passive)
           ELSE IF last_px > 0 THEN lim(last_px)
           ELSE [abstain |-> TRUE, type |-> Limit, price |-> 0]
      ELSE IF agg = "Medium" /\ mid_px > 0 THEN lim(mid_px)
      ELSE IF agg \in {"Medium", "High"} /\ cross > 0 THEN lim(cross)
      ELSE mkt

\* Variant: the configured limit is ignored.
LimitClampOff(c, s, limit) == c

\* The configured limit caps a buy price and floors a sell price.
LimitClamp(c, s, limit) ==
  IF c.type # Market /\ limit > 0 /\
     ((IsBuy(s) /\ c.price > limit) \/ (~IsBuy(s) /\ c.price < limit))
  THEN [c EXCEPT !.price = limit] ELSE c

NoMarkdown(c, nl, last_px) ==
  IF nl /\ c.price < last_px THEN [c EXCEPT !.price = last_px] ELSE c

\* Variant: an order whose cancel was already requested is skipped.
ShouldCancelOnce(ord, cprice, s, b, a) ==
  /\ ord.cancels = 0
  /\ ~(cprice <= 0 \/ cprice = ord.price)
  /\ IF IsBuy(s) THEN ord.price < b ELSE a > 0 /\ ord.price > a

\* Variant: the touch is not compared.
ShouldCancelAnyPrice(ord, cprice, s, b, a) ==
  ~(cprice <= 0 \/ cprice = ord.price)

\* Whether the loop over active_orders cancels ord, given the new price.
ShouldCancel(ord, cprice, s, b, a) ==
  IF cprice <= 0 \/ cprice = ord.price THEN FALSE
  ELSE IF IsBuy(s) THEN ord.price < b
  ELSE a > 0 /\ ord.price > a

\* Variant: the gate is missing.
PovGateOff(pov, vol, cum, cx) == FALSE

\* The participation gate: TRUE when the tick returns without placing.
PovGate(pov, vol, cum, cx) ==
  vol > 0 /\ pov > 0 /\ (cum - cx) * PovDen > pov * vol

\* sqrt(a / d) for 0 < a <= d, in units of 1 / RootDen and rounded down: the
\* largest r in 0..RootDen with (r / RootDen)^2 <= a / d.
RECURSIVE RootIn(_, _, _, _)
RootIn(a, d, lo, hi) ==
  IF lo = hi THEN lo
  ELSE LET mid == (lo + hi + 1) \div 2
       IN  IF mid * mid * d <= a * RootDen * RootDen
           THEN RootIn(a, d, mid, hi) ELSE RootIn(a, d, lo, mid - 1)

Root(a, d) == RootIn(a, d, 0, RootDen)

\* Variant: the normalized time is (now - start) / (end - start).
GetLeavesNoPlusOne(c, t, st, en, q, exposure, u) ==
  LET a == t - st
      d == en - st
      noise == IF c.random_ # 0 THEN c.random_ * u ELSE 0
  IN  [num |-> q * (a * NoiseDen + noise * d) - exposure * NoiseDen * d,
       den |-> NoiseDen * d]

\* Variant: the tilt is never applied.
GetLeavesUntilted(c, t, st, en, q, exposure, u) ==
  LET a == t - st + 1
      d == (en - st) + 1
      noise == IF c.random_ # 0 THEN c.random_ * u ELSE 0
  IN  [num |-> q * (a * NoiseDen + noise * d) - exposure * NoiseDen * d,
       den |-> NoiseDen * d]

\* GetLeaves as the fraction num / den (den > 0); u is the draw of kRandom
\* in units of 1 / NoiseDen.  pow(ratio, tilt_) is exact for a whole power;
\* for a power of k / TiltDen it is the root of ratio^k.
GetLeaves(c, t, st, en, q, exposure, u) ==
  LET a == t - st + 1
      d == (en - st) + 1
      tilted == c.tilt_ # TiltDen
      whole == c.tilt_ % TiltDen = 0
      rn == IF ~tilted THEN a
            ELSE IF whole THEN Pow(a, c.tilt_ \div TiltDen)
            ELSE Root(Pow(a, c.tilt_), Pow(d, c.tilt_))
      rd == IF ~tilted THEN d
            ELSE IF whole THEN Pow(d, c.tilt_ \div TiltDen)
            ELSE RootDen
      noise == IF c.random_ # 0 THEN c.random_ * u ELSE 0
  IN  [num |-> q * (rn * NoiseDen + noise * rd) - exposure * NoiseDen * rd,
       den |-> NoiseDen * rd]

\* Variant: max_qty is never cut down to whole lots.
MaxQtyOdd(odd_ok, total_leaves, lot) == total_leaves

\* max_qty: all that is left of the parent order, or its whole lots.
MaxQty(odd_ok, total_leaves, lot) ==
  IF odd_ok THEN total_leaves ELSE FloorDiv(total_leaves, lot) * lot

\* Variant: would_qty is not cut back to max_qty.
ChildQtyUncapped(leaves, total_leaves, sec_lot, odd_allowed, min, max_floor) ==
  LET odd_ok == odd_allowed \/ sec_lot <= 0
      lot == IF sec_lot <= 0 THEN Max(1, min) ELSE sec_lot
      max_qty == MaxQty(odd_ok, total_leaves, lot)
      w0 == CeilDiv(leaves.num, leaves.den * lot) * lot
      w1 == IF w0 < min THEN min ELSE w0
      w2 == IF max_floor > 0 /\ w1 > max_floor THEN max_floor ELSE w1
  IN  [place |-> max_qty > 0, qty |-> w2]

\* Lines 230-240: the child quantity for leaves > 0, or place = FALSE when
\* max_qty <= 0.
ChildQty(leaves, total_leaves, sec_lot, odd_allowed, min, max_floor) ==
  LET odd_ok == odd_allowed \/ sec_lot <= 0
      lot == IF sec_lot <= 0 THEN Max(1, min) ELSE sec_lot
      max_qty == MaxQty(odd_ok, total_leaves, lot)
      w0 == CeilDiv(leaves.num, leaves.den * lot) * lot
      w1 == IF w0 < min THEN min ELSE w0
      w2 == IF max_floor > 0 /\ w1 > max_floor THEN max_floor ELSE w1
      w3 == IF w2 > max_qty THEN max_qty ELSE w2
  IN  [place |-> max_qty > 0, qty |-> w3]

Intent(kind, type, price, q) ==
  [kind |-> kind, type |-> type, price |-> price, qty |-> q]

\* Algo::Cancel on every order the loop selects: the order stays active, with
\* one more cancel request on it, until its confirmation arrives.
CancelSelected(orders, cprice, s, b, a) ==
  [i \in DOMAIN orders |->
     IF ShouldCancel(orders[i], cprice, s, b, a)
     THEN [orders[i] EXCEPT !.cancels = @ + 1] ELSE orders[i]]

CancelIntents(orders, cprice, s, b, a) ==
  {Intent("Cancel", orders[i].type, orders[i].price, orders[i].leaves) :
     i \in {j \in DOMAIN orders : ShouldCancel(orders[j], cprice, s, b, a)}}

\* now > end_time_: the tick calls Stop and returns before SetTimeout.
Expired(t, en) == t > en

\* Variant: SetTimeout comes before the expiry check.
OnExpiryRearm(orders) ==
  [stop |-> TRUE, arm |-> TRUE, intents |-> {}, orders |-> orders]

OnExpiry(orders) ==
  [stop |-> TRUE, arm |-> FALSE, intents |-> {}, orders |-> orders]

\* Variant: the tick returns without SetTimeout.
RearmedNot(orders) ==
  [stop |-> FALSE, arm |-> FALSE, intents |-> {}, orders |-> orders]

\* SetTimeout on line 154 comes before every later return: a tick inside the
\* window is re-armed whatever it goes on to do.
Rearmed(orders) ==
  [stop |-> FALSE, arm |-> TRUE, intents |-> {}, orders |-> orders]

\* Variant: the tradable period is not looked at.
OutsideTradePeriodNever(tp) == FALSE

\* !inst_->sec().IsInTradePeriod(): the tick returns once it is re-armed.
OutsideTradePeriod(tp) == ~tp

\* Variant: the tick goes on to place with an order outstanding.
HasActiveNever(orders) == FALSE

\* An order is outstanding: the tick reconciles it and places nothing.
HasActive(orders) == orders # <<>>

\* One run of Timer() at time t with configuration c: whether it calls
\* Stop, whether it re-arms, the intents it issues and the active orders it
\* leaves.
Timer(c, t, st, en, iv, u) ==
  LET idle == Rearmed(active_orders)
      last_px == RoundPrice(close)
      sel == PriceSelect(c.agg_, side, bid, ask, last_px, MidPx(bid, ask))
      ct == NoMarkdown(LimitClamp(sel, side, c.price_),
                       not_lower_than_last_px_, last_px)
      exposure == TotalExposure(active_orders, cum_qty)
      leaves == GetLeaves(c, t, st, en, qty, exposure, u)
      child == ChildQty(leaves, qty - exposure, lot_size, odd_lot_allowed,
                        c.min_size_, c.max_floor_)
  IN  IF Expired(t, en)
      THEN OnExpiry(active_orders)
      ELSE IF OutsideTradePeriod(inTradePeriod) THEN idle
      ELSE IF sel.abstain THEN idle
      ELSE IF HasActive(active_orders)
      THEN [idle EXCEPT
              !.intents = CancelIntents(active_orders, ct.price, side, bid, ask),
              !.orders = CancelSelected(active_orders, ct.price, side, bid, ask)]
      ELSE IF PovGate(c.max_pov_, volume - iv, cum_qty, cum_cx_qty) THEN idle
      ELSE IF leaves.num <= 0 THEN idle
      ELSE IF ~child.place THEN idle
      ELSE [idle EXCEPT
              !.intents = {Intent("Place", ct.type, ct.price, child.qty)},
              !.orders = Append(active_orders,
                                [type |-> ct.type, price |-> ct.price,
                                 leaves |-> child.qty, cancels |-> 0])]

\* ------------------------------------------------------------ parameter maps
\* The ParamMaps OnModify is called with in Spec: a recognised token, and
\* an unknown one beside new limits.
ModifyMaps ==
  {"Aggression" :> "Highest",
   ("Aggression" :> "Fastest") @@ ("Price" :> TickSize + 1) @@
     ("MaxPov" :> PovDen \div 2)}

Windows ==
  {NoParams, "ValidSeconds" :> MinValidSeconds \div 2,
   "ValidSeconds" :> MinValidSeconds}

StartMaps ==
  {m @@ s : m \in {NoParams, "MinSize" :> Lot + 1, "Aggression" :> "Fastest",
                   "InternalCross" :> "Yes"},
            s \in Windows}

\* The ParamMaps of SpecParams: absent or a value, key by key.
Opt(key, values) == {NoParams} \cup {key :> v : v \in values}

AllMaps ==
  {a @@ b @@ c @@ d @@ e :
     a \in Opt("Price", {TickSize + 1}),
     b \in Opt("MinSize", {Lot + 1, 2 * Lot}),
     c \in Opt("MaxFloor", {1, Lot + 1}),
     d \in Opt("MaxPov", {2 * PovDen}),
     e \in Opt("Aggression", {"High", "Fastest"})}
  \cup {"Aggression" :> "Low", "Aggression" :> "Medium",
        "Aggression" :> "Highest", "Randomize" :> 10, "Tilt" :> "-ln10",
        "Price" :> 0, "MinSize" :> 0}

AllStartMaps ==
  {m @@ s : m \in AllMaps \cup {"InternalCross" :> "Yes"}, s \in Windows}

\* The draws of kRandom the model takes, in units of 1 / NoiseDen.
NoiseDraws == {-1, 0, 1}

Quotes == {<<0, 0>>, <<TickSize, 2 * TickSize>>, <<2 * TickSize, 3 * TickSize>>}
LastPrices == {0, TickSize + 1}

TooShort == "Too short ValidSeconds, must be >= 60"
MinSizeRequired == "MinSize required for security without lot size"

\* ------------------------------------------------------------------ Init
\* The member initialisers of the configuration.
DefaultCfg ==
  [price_ |-> 0, min_size_ |-> 0, max_floor_ |-> 0, max_pov_ |-> 0,
   agg_ |-> "Low", random_ |-> 0, tilt_ |-> TiltDen]

\* The instance as constructed and handed to OnStart: the SecurityTuple is
\* resolved (qty > 0), the configuration has its member initialisers, no
\* timer is armed and nothing has been placed.
Init ==
  /\ status = "NotStarted"
  /\ side \in {"Buy", "Sell"}
  /\ qty = ParentQty
  /\ lot_size \in {0, Lot}
  /\ odd_lot_allowed \in (IF lot_size > 0 THEN BOOLEAN ELSE {FALSE})
  /\ not_lower_than_last_px_ \in (IF IsBuy(side) THEN {FALSE} ELSE BOOLEAN)
  /\ now = 0 /\ start_time_ = 0 /\ end_time_ = 0
  /\ price_ = 0 /\ min_size_ = 0 /\ max_floor_ = 0 /\ max_pov_ = 0
  /\ agg_ = DefaultCfg.agg_ /\ random_ = 0 /\ tilt_ = DefaultCfg.tilt_
  /\ bid = 0 /\ ask = 0 /\ close = 0 /\ volume = PriorVolume
  /\ initial_volume_ = 0
  /\ inTradePeriod = TRUE
  /\ active_orders = <<>> /\ cum_qty = 0 /\ cum_cx_qty = 0 /\ crossLeaves = 0
  /\ timers = 0 /\ cleared = 0 /\ modifies = 0
  /\ params = NoParams /\ err = "" /\ intents = {}

\* --------------------------------------------------------------- actions
SetCfg(c) ==
  /\ price_' = c.price_ /\ min_size_' = c.min_size_
  /\ max_floor_' = c.max_floor_ /\ max_pov_' = c.max_pov_
  /\ agg_' = c.agg_ /\ random_' = c.random_ /\ tilt_' = c.tilt_

\* Algo::Stop(): the first request stops the instance and runs OnStop, which
\* calls inst_->Clear(); a request on a stopped instance does nothing.
\* Variant: OnStop releases nothing.
OnStopKeeps == cleared' = cleared

\* OnStop: inst_->Clear() releases the market-data subscription.
OnStop == cleared' = cleared + 1

StopNow ==
  /\ status' = "Stopped"
  /\ IF status = "Running" THEN OnStop ELSE UNCHANGED cleared

\* OnStart(p).  The three error returns leave what the lines before them
\* assigned; the successful path issues the cross and runs the first tick.
\* Variant: a window of exactly MinValidSeconds is rejected too.
WindowTooShortLe(seconds) == seconds <= MinValidSeconds

WindowTooShort(seconds) == seconds < MinValidSeconds

OnStart(p, u) ==
  LET seconds == GetParam(p, "ValidSeconds", 0)
      m == Modify(Cfg, lot_size, p)
      cross == IF GetParam(p, "InternalCross", "") = "Yes"
               THEN {Intent("Cross", Limit, m.cfg.price_, qty)} ELSE {}
      t == Timer(m.cfg, now, now, now + seconds, volume, u)
  IN  /\ status = "NotStarted" /\ err = ""
      /\ params' = p
      /\ initial_volume_' = volume
      /\ UNCHANGED <<secVars, now, mdVars, cum_qty, cum_cx_qty, cleared,
                     modifies>>
      /\ IF WindowTooShort(seconds)
         THEN /\ err' = TooShort
              /\ UNCHANGED <<status, start_time_, end_time_, cfgVars,
                             active_orders, crossLeaves, timers>>
              /\ intents' = {}
         ELSE /\ start_time_' = now /\ end_time_' = now + seconds
              /\ SetCfg(m.cfg)
              /\ IF m.err # "" \/ (m.cfg.min_size_ <= 0 /\ lot_size <= 0)
                 THEN /\ err' = IF m.err # "" THEN m.err ELSE MinSizeRequired
                      /\ UNCHANGED <<status, active_orders, crossLeaves,
                                     timers>>
                      /\ intents' = {}
                 ELSE /\ err' = ""
                      /\ status' = "Running"
                      /\ crossLeaves' = IF cross # {} THEN qty ELSE 0
                      /\ intents' = cross \cup t.intents
                      /\ active_orders' = t.orders
                      /\ timers' = IF t.arm THEN timers + 1 ELSE timers

\* OnModify(p): Modify, and the error it returns is logged.
OnModify(p) ==
  LET m == Modify(Cfg, lot_size, p)
  IN  /\ status = "Running" /\ modifies < MaxModify
      /\ modifies' = modifies + 1
      /\ params' = p /\ err' = m.err /\ intents' = {}
      /\ SetCfg(m.cfg)
      /\ UNCHANGED <<status, secVars, now, start_time_, end_time_, mdVars,
                     initial_volume_, execVars, timers, cleared>>

\* The armed timeout fires on a running instance, TickStride after the last
\* one, and runs Timer().
Timeout(u) ==
  LET t == Timer(Cfg, now + TickStride, start_time_, end_time_,
                 initial_volume_, u)
  IN  /\ status = "Running" /\ timers > 0
      /\ now' = now + TickStride
      /\ intents' = t.intents
      /\ active_orders' = t.orders
      /\ timers' = (timers - 1) + (IF t.arm THEN 1 ELSE 0)
      /\ IF t.stop THEN StopNow ELSE UNCHANGED <<status, cleared>>
      /\ UNCHANGED <<secVars, start_time_, end_time_, cfgVars, mdVars,
                     initial_volume_, cum_qty, cum_cx_qty, crossLeaves,
                     modifies, params, err>>

\* A timeout armed before the instance stopped comes due afterwards: the
\* timer service does not run the callback of a stopped instance.
TimeoutDropped ==
  /\ status = "Stopped" /\ timers > 0
  /\ timers' = timers - 1
  /\ intents' = {}
  /\ UNCHANGED <<status, secVars, now, start_time_, end_time_, cfgVars,
                 mdVars, initial_volume_, execVars, cleared, modifies, params,
                 err>>

\* Variant: the comparison is strict.
OnConfirmationGt(cum) ==
  IF cum > qty THEN StopNow ELSE UNCHANGED <<status, cleared>>

\* OnConfirmation: the collaborator has already booked the confirmation;
\* cum is the cumulative filled quantity it left.
OnConfirmation(cum) ==
  IF cum >= qty THEN StopNow ELSE UNCHANGED <<status, cleared>>

Confirmed ==
  /\ status # "NotStarted"
  /\ intents' = {}
  /\ OnConfirmation(cum_qty')
  /\ UNCHANGED <<secVars, now, start_time_, end_time_, cfgVars, mdVars,
                 initial_volume_, timers, modifies, params, err>>

RemoveAt(orders, i) ==
  [j \in 1..(Len(orders) - 1) |-> IF j < i THEN orders[j] ELSE orders[j + 1]]

\* A fill of f shares of the i-th active order.
Fill(i, f) ==
  /\ i \in DOMAIN active_orders /\ f \in 1..active_orders[i].leaves
  /\ cum_qty' = cum_qty + f
  /\ active_orders' = IF f = active_orders[i].leaves
                      THEN RemoveAt(active_orders, i)
                      ELSE [active_orders EXCEPT ![i].leaves = @ - f]
  /\ UNCHANGED <<cum_cx_qty, crossLeaves>>
  /\ Confirmed

\* The i-th active order is cancelled (on request, or by the venue).
Canceled(i) ==
  /\ i \in DOMAIN active_orders
  /\ active_orders' = RemoveAt(active_orders, i)
  /\ UNCHANGED <<cum_qty, cum_cx_qty, crossLeaves>>
  /\ Confirmed

\* f shares of the internal cross are filled.
CrossFill(f) ==
  /\ f \in 1..crossLeaves
  /\ cum_qty' = cum_qty + f /\ cum_cx_qty' = cum_cx_qty + f
  /\ crossLeaves' = crossLeaves - f
  /\ UNCHANGED active_orders
  /\ Confirmed

\* The feed runs from before the instance is started until it is stopped or
\* its start is rejected.
Feed ==
  /\ (status = "NotStarted" /\ err = "") \/ status = "Running"
  /\ intents' = {}
  /\ UNCHANGED <<status, secVars, now, start_time_, end_time_, cfgVars,
                 initial_volume_, execVars, timers, cleared, modifies, params,
                 err>>

\* Variant: the quote callback asks for the cancel of every active order.
OnMarketQuoteCancels(b, a) ==
  /\ <<b, a>> # <<bid, ask>>
  /\ bid' = b /\ ask' = a
  /\ UNCHANGED <<close, volume, inTradePeriod>>
  /\ (status = "NotStarted" /\ err = "") \/ status = "Running"
  /\ intents' = {Intent("Cancel", active_orders[i].type,
                        active_orders[i].price, active_orders[i].leaves) :
                   i \in DOMAIN active_orders}
  /\ UNCHANGED <<status, secVars, now, start_time_, end_time_, cfgVars,
                 initial_volume_, execVars, timers, cleared, modifies, params,
                 err>>

\* The feed refreshes the quote; OnMarketQuote only logs it.
OnMarketQuote(b, a) ==
  /\ <<b, a>> # <<bid, ask>>
  /\ bid' = b /\ ask' = a
  /\ UNCHANGED <<close, volume, inTradePeriod>>
  /\ Feed

\* The feed reports a trade of v shares at px; OnMarketTrade only logs it.
OnMarketTrade(px, v) ==
  /\ volume + v <= PriorVolume + MaxVolume
  /\ close' = px /\ volume' = volume + v
  /\ UNCHANGED <<bid, ask, inTradePeriod>>
  /\ Feed

\* The instrument enters or leaves its tradable period.
TradePeriod ==
  /\ inTradePeriod' = ~inTradePeriod
  /\ UNCHANGED <<bid, ask, close, volume>>
  /\ Feed

Next ==
  \/ \E p \in StartMaps : OnStart(p, 0)
  \/ \E p \in ModifyMaps : OnModify(p)
  \/ \E u \in (IF random_ # 0 THEN NoiseDraws ELSE {0}) : Timeout(u)
  \/ TimeoutDropped
  \/ \E i \in 1..2, f \in 1..ParentQty : Fill(i, f)
  \/ \E i \in 1..2 : Canceled(i)
  \/ \E f \in 1..ParentQty : CrossFill(f)
  \/ \E q \in Quotes : OnMarketQuote(q[1], q[2])
  \/ \E px \in LastPrices, v \in 1..MaxVolume : OnMarketTrade(px, v)
  \/ TradePeriod

Spec == Init /\ [][Next]_vars

\* The parameter manager alone: OnStart and OnModify over AllMaps.
NextParams ==
  \/ \E p \in AllStartMaps, u \in NoiseDraws : OnStart(p, u)
  \/ \E p \in AllMaps : OnModify(p)

SpecParams == Init /\ [][NextParams]_vars

\* -------------------------------------------------------------- SpecTick
\* The timer callback alone, on a running instance part way through its
\* window.  InitTick draws that instance two ways: the price inputs varied
\* (aggression, limit price, quote, last price, a resting order) with the
\* sizes at their defaults, or the size inputs varied (min size, max floor,
\* participation cap, noise, tilt, fills, volume) on one quote.
BaseCfg(lot) ==
  IF lot > 0 THEN DefaultCfg
  ELSE Modify(DefaultCfg, lot, "MinSize" :> Lot + 1).cfg

ConfigsFrom(maps, lot) ==
  {Modify(BaseCfg(lot), lot, p).cfg :
     p \in {q \in maps : Modify(BaseCfg(lot), lot, q).err = ""}}

PriceMaps ==
  {a @@ e : a \in Opt("Price", {TickSize + 1}),
            e \in Opt("Aggression", AggTokens)}

SizeMaps ==
  {b @@ c @@ d @@ f :
     b \in Opt("MinSize", {Lot + 1}),
     c \in Opt("MaxFloor", {1, Lot + 1}),
     d \in Opt("MaxPov", {PovDen \div 2}),
     f \in {NoParams, "Randomize" :> 10, "Tilt" :> "-ln10"}}

\* The last prices a tick of SpecTick reads: none, one between the two
\* quotes' bids, and one at the upper ask.
TickLastPrices == LastPrices \cup {3 * TickSize}

Resting(px, n) == [type |-> Limit, price |-> px, leaves |-> n, cancels |-> 0]

InitTick ==
  /\ status = "Running"
  /\ side \in {"Buy", "Sell"}
  /\ qty = ParentQty
  /\ lot_size \in {0, Lot}
  /\ odd_lot_allowed \in (IF lot_size > 0 THEN BOOLEAN ELSE {FALSE})
  /\ not_lower_than_last_px_ \in (IF IsBuy(side) THEN {FALSE} ELSE BOOLEAN)
  /\ start_time_ = 0 /\ end_time_ = MinValidSeconds
  /\ initial_volume_ = PriorVolume
  /\ crossLeaves = 0
  /\ timers = 1 /\ cleared = 0 /\ modifies = 1
  /\ params = NoParams /\ err = "" /\ intents = {}
  /\ \/ /\ now = 0
        /\ \E c \in ConfigsFrom(PriceMaps, lot_size) :
             /\ price_ = c.price_ /\ min_size_ = c.min_size_
             /\ max_floor_ = c.max_floor_ /\ max_pov_ = c.max_pov_
             /\ agg_ = c.agg_ /\ random_ = c.random_ /\ tilt_ = c.tilt_
        /\ \E q \in Quotes : bid = q[1] /\ ask = q[2]
        /\ close \in TickLastPrices
        /\ volume = PriorVolume
        /\ inTradePeriod = TRUE
        /\ cum_qty = 0 /\ cum_cx_qty = 0
        /\ active_orders \in
             {<<>>} \cup {<<Resting(k * TickSize, 1)>> : k \in 1..3}
     \/ /\ now \in {0, TickStride}
        /\ \E c \in ConfigsFrom(SizeMaps, lot_size) :
             /\ price_ = c.price_ /\ min_size_ = c.min_size_
             /\ max_floor_ = c.max_floor_ /\ max_pov_ = c.max_pov_
             /\ agg_ = c.agg_ /\ random_ = c.random_ /\ tilt_ = c.tilt_
        /\ bid = TickSize /\ ask = 2 * TickSize /\ close = 0
        /\ volume \in PriorVolume..(PriorVolume + MaxVolume)
        /\ inTradePeriod \in BOOLEAN
        /\ cum_qty \in 0..(ParentQty - 1)
        /\ cum_cx_qty \in 0..cum_qty
        /\ active_orders \in
             {<<>>} \cup {<<Resting(TickSize, n)>> : n \in 1..(ParentQty - cum_qty)}

NextTick == \E u \in NoiseDraws : Timeout(u)

SpecTick == InitTick /\ [][NextTick]_vars

\* The timer callback together with the confirmations of the child orders
\* it places: fills and cancels arrive between the ticks.
NextExec ==
  \/ NextTick
  \/ \E i \in 1..1, f \in 1..ParentQty : Fill(i, f)
  \/ \E i \in 1..1 : Canceled(i)

SpecExec == InitTick /\ [][NextExec]_vars

\* ---------------------------------------------------------- SpecSchedule
\* The pacing law: an instance that has just started, over the windows,
\* parent quantities, tilts and earlier fills of ScheduleMaps and Windows
\* below, driven by its timer to the end of its window.
ScheduleMaps ==
  {NoParams, "Randomize" :> 10, "Tilt" :> "-ln10", "Tilt" :> "-ln2.5"}

ScheduleWindows ==
  {MinValidSeconds, MinValidSeconds + 1, MinValidSeconds + TickStride}

InitSchedule ==
  /\ status = "Running"
  /\ side \in {"Buy", "Sell"}
  /\ qty \in 1..ParentQty
  /\ lot_size \in {0, Lot}
  /\ odd_lot_allowed \in (IF lot_size > 0 THEN BOOLEAN ELSE {FALSE})
  /\ not_lower_than_last_px_ = FALSE
  /\ start_time_ \in {0, 1} /\ now = start_time_
  /\ end_time_ \in {start_time_ + w : w \in ScheduleWindows}
  /\ \E c \in ConfigsFrom(ScheduleMaps, lot_size) :
       /\ price_ = c.price_ /\ min_size_ = c.min_size_
       /\ max_floor_ = c.max_floor_ /\ max_pov_ = c.max_pov_
       /\ agg_ = c.agg_ /\ random_ = c.random_ /\ tilt_ = c.tilt_
  /\ bid = TickSize /\ ask = 2 * TickSize /\ close = 0
  /\ volume = PriorVolume /\ initial_volume_ = PriorVolume
  /\ inTradePeriod = TRUE
  /\ cum_qty \in 0..(qty - 1) /\ cum_cx_qty = cum_qty
  /\ active_orders = <<>> /\ crossLeaves = 0
  /\ timers = 1 /\ cleared = 0 /\ modifies = 1
  /\ params = NoParams /\ err = "" /\ intents = {}

SpecSchedule == InitSchedule /\ [][NextTick]_vars

\* The whole machine with the timer service firing every armed timeout.
FairSpec == Spec /\ WF_vars(\E u \in NoiseDraws : Timeout(u))

\* ---------------------------------------------------------------- claims
Placed == {i \in intents : i.kind = "Place"}

\* C1: at most one child order is active in every reachable state, and a
\* step that places an order leaves that order as the only active one, so
\* Place is issued only when no order was outstanding.
C1_SingleOutstanding ==
  /\ Len(active_orders) <= 1
  /\ \A i \in Placed :
       active_orders = <<[type |-> i.type, price |-> i.price,
                          leaves |-> i.qty, cancels |-> 0]>>

\* C1 witness: an order is placed after an earlier child order was filled.
C1_Witness == Placed # {} /\ Len(active_orders) = 1 /\ cum_qty > 0

\* C2: once the cumulative filled quantity has reached the requested total
\* the instance is Stopped, whatever the time.
C2_FilledStops ==
  (status # "NotStarted" /\ cum_qty >= qty) => status = "Stopped"

\* C2 witness: stopped by the fill total inside the window.
C2_Witness ==
  status = "Stopped" /\ cum_qty = qty /\ now <= end_time_ /\ cleared = 1

\* C3: a running instance always has exactly one timeout armed, and under
\* weak fairness of the timeout every running instance is eventually
\* Stopped.
C3_EventuallyStopped ==
  /\ [](status = "Running" => timers = 1)
  /\ (status = "Running") ~> (status = "Stopped")

\* C3 witness: stopped by the first tick past the end of the window, with
\* the parent order unfilled and no timeout left armed.
C3_Witness ==
  status = "Stopped" /\ now > end_time_ /\ cum_qty < qty /\ timers = 0

AggOk(p) == ~HasValue(p, "Aggression") \/ p["Aggression"] \in AggTokens

Rejected(e) ==
  /\ err = e /\ status = "NotStarted"
  /\ timers = 0 /\ intents = {} /\ active_orders = <<>> /\ crossLeaves = 0

StartReturned == modifies = 0 /\ (status # "NotStarted" \/ err # "")

\* C5: OnStart with ValidSeconds < 60 is rejected as too short; with a valid
\* window, a valid or absent Aggression, no lot size and no min size it is
\* rejected for the missing min size; both leave the instance NotStarted
\* with no timeout, cross or order.  With a valid window and Aggression and
\* a lot size or min size it succeeds and the first tick has run.
C5_StartErrors ==
  StartReturned =>
    LET seconds == GetParam(params, "ValidSeconds", 0)
    IN  /\ seconds < MinValidSeconds => Rejected(TooShort)
        /\ (seconds >= MinValidSeconds /\ AggOk(params) /\
            lot_size <= 0 /\ min_size_ <= 0) => Rejected(MinSizeRequired)
        /\ (seconds >= MinValidSeconds /\ AggOk(params) /\
            (lot_size > 0 \/ min_size_ > 0)) =>
             /\ err = "" /\ status = "Running"
             /\ timers = 1 /\ start_time_ = now /\ end_time_ = now + seconds

\* C5 witness: a start with a valid window rejected for the missing min size.
C5_Witness ==
  /\ StartReturned /\ Rejected(MinSizeRequired)
  /\ GetParam(params, "ValidSeconds", 0) >= MinValidSeconds

\* C6: an OnModify call whose Aggression is present and unknown reports the
\* error and leaves the aggression level as it was.
C6_BadAggression ==
  [][(modifies' = modifies + 1 /\ ~AggOk(params')) =>
       (err' = AggError /\ agg_' = agg_)]_vars

\* C6 witness: a rejected call that also carried a Price, on an instance
\* whose level was High.
C6_Witness ==
  /\ modifies > 0 /\ ~AggOk(params) /\ HasValue(params, "Price")
  /\ err = AggError /\ agg_ = "High"

\* C7: an OnModify call that returns an error leaves the whole configuration
\* as it was.
C7_FailedModifyKeepsConfig ==
  [][(modifies' = modifies + 1 /\ err' # "") => UNCHANGED cfgVars]_vars

Gated ==
  /\ max_pov_ > 0 /\ volume - initial_volume_ > 0
  /\ (cum_qty - cum_cx_qty) * PovDen > max_pov_ * (volume - initial_volume_)

\* C8: a tick on which the participation cap is configured, volume has
\* traded since the start and filled minus cx exceeds the cap's share of it
\* places no order.
C8_PovGate == Gated => Placed = {}

\* C8 witness: the last tick of the window, gated, with nothing outstanding,
\* a quote to rest at and the parent order unfilled.
C8_Witness ==
  /\ Gated /\ status = "Running" /\ now = 2 * TickStride /\ now <= end_time_
  /\ inTradePeriod /\ active_orders = <<>> /\ cum_qty < qty /\ Placed = {}

\* C9: with a lot size and odd lots not allowed, every quantity placed is a
\* multiple of the lot size.
C9_LotMultiple ==
  (lot_size > 0 /\ ~odd_lot_allowed) =>
    \A i \in Placed : i.qty > 0 /\ i.qty % lot_size = 0

\* C9 witness: one lot placed with min size and max floor both set by
\* Modify on such an instrument.
C9_Witness ==
  /\ lot_size > 0 /\ ~odd_lot_allowed /\ min_size_ > 0 /\ max_floor_ > 0
  /\ \E i \in Placed : i.qty = lot_size

NoPrices == bid = 0 /\ ask = 0 /\ RoundPrice(close) = 0

\* C10 as amended: with no bid, ask or last price Low places nothing, and
\* Medium and High fall through to Highest: what they place is a market
\* order.  Highest places only market orders on every snapshot.
C10_Fallback ==
  /\ (NoPrices /\ agg_ = "Low") => Placed = {}
  /\ (NoPrices /\ agg_ \in {"Medium", "High"}) =>
       \A i \in Placed : i.type = Market
  /\ agg_ = "Highest" => \A i \in Placed : i.type = Market

\* C10 witness: Medium with no prices places a market order.
C10_Witness ==
  NoPrices /\ agg_ = "Medium" /\ \E i \in Placed : i.type = Market

\* C10 as stated: with no bid, ask or last price Low, Medium and High place
\* nothing, and Highest places only market orders.
C10_AllAbstain ==
  /\ (NoPrices /\ agg_ \in {"Low", "Medium", "High"}) => Placed = {}
  /\ agg_ = "Highest" => \A i \in Placed : i.type = Market

\* C11: after successful OnStart and OnModify calls the configuration never
\* has min_size_ > 0, max_floor_ > 0 and max_floor_ < min_size_.
C11_FloorNotBelowMin ==
  (status = "Running" /\ err = "") =>
    ~(min_size_ > 0 /\ max_floor_ > 0 /\ max_floor_ < min_size_)

C13_LimitRespected ==
  price_ > 0 =>
    \A i \in Placed :
      i.type = Limit =>
        IF IsBuy(side) THEN i.price <= price_ ELSE i.price >= price_

\* C13 witness: a High sell whose bid is below the limit is raised to the
\* limit and then, by the no-markdown adjustment, to the last price above it.
C13_Witness ==
  /\ price_ > 0 /\ ~IsBuy(side) /\ not_lower_than_last_px_ /\ agg_ = "High"
  /\ 0 < bid /\ bid < price_ /\ price_ < RoundPrice(close)
  /\ \E i \in Placed : i.type = Limit /\ i.price = RoundPrice(close)

\* The price a tick computes from the snapshot: the selected price after the
\* limit clamp and the no-markdown adjustment (0 for a market order that
\* no-markdown leaves alone, and when Low abstains).
ComputedPrice ==
  NoMarkdown(LimitClamp(PriceSelect(agg_, side, bid, ask, RoundPrice(close),
                                    MidPx(bid, ask)),
                        side, price_),
             not_lower_than_last_px_, RoundPrice(close)).price

Cancels == {i \in intents : i.kind = "Cancel"}

\* C14: a tick that finds one order outstanding places nothing and keeps the
\* order active; inside the window and the tradable period it requests the
\* order's cancel exactly when the computed price is > 0, differs from the
\* order's price and the order is worse than the touch (buy: below the bid;
\* sell: ask > 0 and above the ask), and otherwise leaves it as it was.
C14_Reconcile ==
  [][(now' # now /\ Len(active_orders) = 1) =>
       LET ord == active_orders[1]
           worse == IF IsBuy(side) THEN ord.price < bid
                    ELSE ask > 0 /\ ord.price > ask
           cancel == /\ now' <= end_time_ /\ inTradePeriod
                     /\ ComputedPrice > 0 /\ ComputedPrice # ord.price
                     /\ worse
       IN  /\ {i \in intents' : i.kind = "Place"} = {}
           /\ Len(active_orders') = 1
           /\ IF cancel
              THEN /\ active_orders'[1] = [ord EXCEPT !.cancels = @ + 1]
                   /\ intents' = {Intent("Cancel", ord.type, ord.price,
                                         ord.leaves)}
              ELSE active_orders' = active_orders /\ intents' = {}]_vars

\* C14 witness: a sell order resting above the ask has had its cancel
\* requested by a tick that computed another price and placed nothing.
C14_Witness ==
  /\ ~IsBuy(side) /\ Len(active_orders) = 1 /\ active_orders[1].cancels = 1
  /\ ask > 0 /\ active_orders[1].price > ask
  /\ ComputedPrice > 0 /\ ComputedPrice # active_orders[1].price
  /\ Cancels # {} /\ Placed = {}

\* C15: a tick that fires inside the window while the instrument is outside
\* its tradable period re-arms the next tick and changes nothing else: it
\* issues no intent and leaves the configuration, the orders, the fills and
\* the status as they were.
C15_OutsideTradePeriod ==
  [][(now' # now /\ now' <= end_time_ /\ ~inTradePeriod) =>
       /\ timers' = 1 /\ intents' = {}
       /\ UNCHANGED <<status, cleared, cfgVars, execVars, start_time_,
                      end_time_, initial_volume_>>]_vars

\* C15 witness: the last tick of the window has fired outside the tradable
\* period with the whole parent order behind schedule, and placed nothing.
C15_Witness ==
  /\ status = "Running" /\ ~inTradePeriod
  /\ now = 2 * TickStride /\ now <= end_time_
  /\ active_orders = <<>> /\ cum_qty = 0 /\ bid > 0
  /\ timers = 1 /\ intents = {}

MarketUpdate == <<bid, ask, close, volume>>' # <<bid, ask, close, volume>>

\* C16 as amended: a market-data update (quote or trade callback) issues no
\* Place and no Cancel and changes nothing of the instance: the decision is
\* re-evaluated only by the next timer tick, which reads the snapshot the
\* update left.
C16_UpdatesOnlyLogged ==
  [][MarketUpdate =>
       /\ intents' = {}
       /\ UNCHANGED <<status, cleared, timers, now, cfgVars, execVars>>]_vars

\* C16 witness: a quote update has left a resting buy order below the bid,
\* with another price to be computed, and no cancel has been requested.
C16_Witness ==
  /\ status = "Running" /\ inTradePeriod /\ now <= end_time_
  /\ IsBuy(side) /\ Len(active_orders) = 1
  /\ active_orders[1].price < bid /\ active_orders[1].cancels = 0
  /\ ComputedPrice > 0 /\ ComputedPrice # active_orders[1].price
  /\ intents = {}

\* C16 as stated: the decision is re-evaluated on each market-data update:
\* an update on a running instance issues the intents a tick would issue on
\* the snapshot it leaves.
C16_ReevaluatedOnUpdate ==
  [][(MarketUpdate /\ status = "Running" /\ random_ = 0) =>
       intents' = (Timer(Cfg, now, start_time_, end_time_, initial_volume_,
                         0).intents)']_vars

\* The expected quantity at time t with no noise drawn, as a fraction:
\* GetLeaves before the exposure is taken off.
ExpectedQty(t) == GetLeaves(Cfg, t, start_time_, end_time_, qty, 0, 0)

Window == (end_time_ - start_time_) + 1

\* C17: with tilt_ = 1 and random_ = 0 the expected quantity at every time t
\* of the window is qty * (t - start + 1) / (end - start + 1): it does not
\* decrease with t, is qty / (end - start + 1) at the start and exactly qty
\* at the end, where GetLeaves is qty minus the total exposure.
C17_LinearPacing ==
  (tilt_ = TiltDen /\ random_ = 0) =>
    LET x == TotalExposure(active_orders, cum_qty)
        atEnd == GetLeaves(Cfg, end_time_, start_time_, end_time_, qty, x, 0)
    IN  /\ \A t \in start_time_..end_time_ :
             ExpectedQty(t).num * Window =
               qty * (t - start_time_ + 1) * ExpectedQty(t).den
        /\ \A t \in start_time_..(end_time_ - 1) :
             ExpectedQty(t).num * ExpectedQty(t + 1).den <=
               ExpectedQty(t + 1).num * ExpectedQty(t).den
        /\ ExpectedQty(start_time_).num * Window =
             qty * ExpectedQty(start_time_).den
        /\ ExpectedQty(end_time_).num = qty * ExpectedQty(end_time_).den
        /\ atEnd.num = (qty - x) * atEnd.den

\* C17 witness: the tick at the end of the window of a linear schedule has
\* placed all that earlier fills had left of the parent order.
C17_Witness ==
  /\ tilt_ = TiltDen /\ random_ = 0 /\ now = end_time_ /\ cum_qty > 0
  /\ \E i \in Placed : i.qty = qty - cum_qty

\* qty * (t - start + 1) / (end - start + 1), the linear expected quantity,
\* compared with ExpectedQty(t): TRUE when the expected quantity is below,
\* or above, the line.
BelowLinear(t) ==
  ExpectedQty(t).num * Window <
    qty * (t - start_time_ + 1) * ExpectedQty(t).den

AboveLinear(t) ==
  ExpectedQty(t).num * Window >
    qty * (t - start_time_ + 1) * ExpectedQty(t).den

\* C18 as amended: with random_ = 0, at every time of the window before its
\* end a power tilt_ > 1 puts the expected quantity below the linear one
\* (back-loaded pacing) and a power tilt_ < 1 puts it above (front-loaded).
C18_TiltDirection ==
  random_ = 0 =>
    \A t \in start_time_..(end_time_ - 1) :
      /\ tilt_ > TiltDen => BelowLinear(t)
      /\ tilt_ < TiltDen => AboveLinear(t)

\* C18 witness: half way through the window a schedule of power 2 has placed
\* nothing, with fills that a linear schedule would be ahead of.
C18_Witness ==
  /\ tilt_ = 2 * TiltDen /\ random_ = 0
  /\ now = start_time_ + TickStride /\ now < end_time_
  /\ active_orders = <<>> /\ Placed = {}
  /\ qty * (now - start_time_ + 1) > cum_qty * Window
  /\ BelowLinear(now)

\* C18 as stated: with random_ = 0, at every time strictly inside the window
\* a power tilt_ > 1 gives at least the linear expected quantity and a power
\* tilt_ < 1 at most the linear expected quantity.
C18_FrontLoadedAboveOne ==
  random_ = 0 =>
    \A t \in (start_time_ + 1)..(end_time_ - 1) :
      /\ tilt_ > TiltDen => ~BelowLinear(t)
      /\ tilt_ < TiltDen => ~AboveLinear(t)

C20_CancelRepeated ==
  [][(/\ now' # now /\ now' <= end_time_ /\ inTradePeriod
      /\ Len(active_orders) = 1 /\ active_orders[1].cancels > 0
      /\ ComputedPrice > 0 /\ ComputedPrice # active_orders[1].price
      /\ IF IsBuy(side) THEN active_orders[1].price < bid
         ELSE ask > 0 /\ active_orders[1].price > ask) =>
       /\ {i \in intents' : i.kind = "Cancel"} # {}
       /\ active_orders'[1].cancels = active_orders[1].cancels + 1]_vars

\* C20 witness: two ticks have each issued a Cancel for the same order,
\* which is still active.
C20_Witness ==
  Len(active_orders) = 1 /\ active_orders[1].cancels = 2 /\ Cancels # {}

\* C20 as stated: no active order has had more than one Cancel issued for it.
C20_AtMostOneCancel ==
  \A i \in DOMAIN active_orders : active_orders[i].cancels <= 1

====
